---- MODULE Spec2Model ----
(***************************************************************************)
(* Model of the classic-cipher-breaker core: the text normalizer, the      *)
(* unigram+bigram language model (training and scoring), the substitution  *)
(* key codec and the hill-climbing breaker with restarts.                  *)
(*                                                                         *)
(* Texts are sequences of one-character strings.  Alphabet indices are     *)
(* 0-based as in the source; keys and tables are functions on 0..26 and    *)
(* 0..728.  Floating-point values are modelled as fixed-point integers     *)
(* together with the IEEE special values NegInf, PosInf and NaN.           *)
(***************************************************************************)
EXTENDS Integers, Sequences, FiniteSets, TLC

(***************************************************************************)
(* Bounds of the model                                                     *)
(***************************************************************************)
MaxRawLen == 3
MaxCorpusLen == 3
MaxSmoothingK == 3
MaxCipherLen == 2
MaxCodecLen == 3
MaxScoreLen == 3
MaxSeedLen == 4
MaxShuffleN == 5
MaxRestarts == 2
MaxIterations == 2

(***************************************************************************)
(* Constants and mappings (englishScore.ts)                                *)
(***************************************************************************)
ALPHABET ==
    << "A", "B", "C", "D", "E", "F", "G", "H", "I", "J", "K", "L", "M",
       "N", "O", "P", "Q", "R", "S", "T", "U", "V", "W", "X", "Y", "Z", " " >>

ALPHABET_SIZE == 27

Indices == 0 .. (ALPHABET_SIZE - 1)

AlphabetChars == { ALPHABET[n] : n \in 1 .. Len(ALPHABET) }

charToIndex ==
    [ c \in AlphabetChars |-> (CHOOSE n \in 1 .. Len(ALPHABET) : ALPHABET[n] = c) - 1 ]

indexToChar == [ i \in Indices |-> ALPHABET[i + 1] ]

(***************************************************************************)
(* Text normalization                                                      *)
(***************************************************************************)
LineBreakChars == { "\n", "\r", "\t" }

PunctuationChars ==
    { ".", ",", ";", ":", "!", "?", "'", "\"", "(", ")", "[", "]", "{", "}" }

LowerCase ==
    << "a", "b", "c", "d", "e", "f", "g", "h", "i", "j", "k", "l", "m",
       "n", "o", "p", "q", "r", "s", "t", "u", "v", "w", "x", "y", "z" >>

LowerChars == { LowerCase[n] : n \in 1 .. Len(LowerCase) }

\* text.replace(/[\n\r\t]+/g, ' '): every maximal run of line breaks and
\* tabs becomes one space.
RECURSIVE ReplaceLineBreaks(_)
ReplaceLineBreaks(s) ==
    IF s = << >> THEN << >>
    ELSE IF Head(s) \in LineBreakChars
         THEN IF Len(s) > 1 /\ s[2] \in LineBreakChars
              THEN ReplaceLineBreaks(Tail(s))
              ELSE << " " >> \o ReplaceLineBreaks(Tail(s))
         ELSE << Head(s) >> \o ReplaceLineBreaks(Tail(s))

\* The punctuation pass left out.
ReplacePunctuationSkipped(s) == s

\* .replace(/[.,;:!?'"()\[\]{}]/g, ' '): every punctuation mark of the list
\* becomes one space.
ReplacePunctuation(s) ==
    [ n \in 1 .. Len(s) |-> IF s[n] \in PunctuationChars THEN " " ELSE s[n] ]

\* String.prototype.toUpperCase on one character: a-z map to A-Z, the
\* sharp s expands to two letters, everything else modelled is unchanged.
UpperOfChar(c) ==
    IF c \in LowerChars
    THEN << ALPHABET[CHOOSE n \in 1 .. Len(LowerCase) : LowerCase[n] = c] >>
    ELSE IF c = "ß" THEN << "S", "S" >>
    ELSE << c >>

RECURSIVE ToUpperCase(_)
ToUpperCase(s) ==
    IF s = << >> THEN << >>
    ELSE UpperOfChar(Head(s)) \o ToUpperCase(Tail(s))

\* The filtering loop with a space put in place of a dropped character.
RECURSIVE FilterLoopSpacing(_, _, _)
FilterLoopSpacing(s, result, lastWasSpace) ==
    IF s = << >> THEN result
    ELSE LET char == IF Head(s) \in DOMAIN charToIndex THEN Head(s) ELSE " " IN
         IF char = " "
         THEN IF ~lastWasSpace
              THEN FilterLoopSpacing(Tail(s), Append(result, char), TRUE)
              ELSE FilterLoopSpacing(Tail(s), result, lastWasSpace)
         ELSE FilterLoopSpacing(Tail(s), Append(result, char), FALSE)

\* The filtering loop: keeps alphabet characters, drops every other
\* character, and skips a space that follows a space or starts the text.
RECURSIVE FilterLoop(_, _, _)
FilterLoop(s, result, lastWasSpace) ==
    IF s = << >> THEN result
    ELSE LET char == Head(s) IN
         IF char \in DOMAIN charToIndex
         THEN IF char = " "
              THEN IF ~lastWasSpace
                   THEN FilterLoop(Tail(s), Append(result, char), TRUE)
                   ELSE FilterLoop(Tail(s), result, lastWasSpace)
              ELSE FilterLoop(Tail(s), Append(result, char), FALSE)
         ELSE FilterLoop(Tail(s), result, lastWasSpace)

\* String.prototype.trim restricted to the characters the loop can emit.
RECURSIVE TrimStart(_)
TrimStart(s) ==
    IF s # << >> /\ Head(s) = " " THEN TrimStart(Tail(s)) ELSE s

RECURSIVE TrimEnd(_)
TrimEnd(s) ==
    IF s # << >> /\ s[Len(s)] = " " THEN TrimEnd(SubSeq(s, 1, Len(s) - 1)) ELSE s

Trim(s) == TrimEnd(TrimStart(s))

\* normalizeEnglish without the final trim.
normalizeEnglishNoTrim(text) ==
    FilterLoop(ToUpperCase(ReplacePunctuation(ReplaceLineBreaks(text))), << >>, TRUE)

\* normalizeEnglish with the filtering loop started at the second character.
normalizeEnglishFromSecond(text) ==
    LET up == ToUpperCase(ReplacePunctuation(ReplaceLineBreaks(text)))
    IN  Trim(FilterLoop(IF up = << >> THEN up ELSE Tail(up), << >>, TRUE))

normalizeEnglish(text) ==
    Trim(FilterLoop(ToUpperCase(ReplacePunctuation(ReplaceLineBreaks(text))),
                    << >>, TRUE))

(***************************************************************************)
(* Floating-point values                                                   *)
(***************************************************************************)
Fin(n) == [kind |-> "finite", val |-> n]
NegInf == [kind |-> "-Infinity", val |-> 0]
PosInf == [kind |-> "+Infinity", val |-> 0]
NaN == [kind |-> "NaN", val |-> 0]

IsFinite(x) == x.kind = "finite"

\* A comparison that only tests for a difference.
GTDiffers(a, b) == a # b /\ a # NaN /\ b # NaN

\* The comparison a > b written the wrong way round.
GTReversed(a, b) ==
    IF a = NaN \/ b = NaN THEN FALSE
    ELSE IF IsFinite(a) /\ IsFinite(b) THEN a.val < b.val
    ELSE IF a = b THEN FALSE
    ELSE a = NegInf \/ b = PosInf

\* IEEE comparison a > b.
GT(a, b) ==
    IF a = NaN \/ b = NaN THEN FALSE
    ELSE IF IsFinite(a) /\ IsFinite(b) THEN a.val > b.val
    ELSE IF a = b THEN FALSE
    ELSE a = PosInf \/ b = NegInf

\* IEEE addition a + b.
FAdd(a, b) ==
    IF a = NaN \/ b = NaN THEN NaN
    ELSE IF IsFinite(a) /\ IsFinite(b) THEN Fin(a.val + b.val)
    ELSE IF IsFinite(a) THEN b
    ELSE IF IsFinite(b) THEN a
    ELSE IF a = b THEN a ELSE NaN

\* IEEE multiplication of the finite integer n by b.
FMul(n, b) ==
    IF b = NaN THEN NaN
    ELSE IF IsFinite(b) THEN Fin(n * b.val)
    ELSE IF n = 0 THEN NaN
    ELSE IF n > 0 THEN b
    ELSE IF b = PosInf THEN NegInf ELSE PosInf

\* 1000 * ln(n) for n = 1..200, rounded to the nearest integer.
LnMilli ==
 <<
    0, 693, 1099, 1386, 1609, 1792, 1946, 2079, 2197, 2303,
    2398, 2485, 2565, 2639, 2708, 2773, 2833, 2890, 2944, 2996,
    3045, 3091, 3135, 3178, 3219, 3258, 3296, 3332, 3367, 3401,
    3434, 3466, 3497, 3526, 3555, 3584, 3611, 3638, 3664, 3689,
    3714, 3738, 3761, 3784, 3807, 3829, 3850, 3871, 3892, 3912,
    3932, 3951, 3970, 3989, 4007, 4025, 4043, 4060, 4078, 4094,
    4111, 4127, 4143, 4159, 4174, 4190, 4205, 4220, 4234, 4248,
    4263, 4277, 4290, 4304, 4317, 4331, 4344, 4357, 4369, 4382,
    4394, 4407, 4419, 4431, 4443, 4454, 4466, 4477, 4489, 4500,
    4511, 4522, 4533, 4543, 4554, 4564, 4575, 4585, 4595, 4605,
    4615, 4625, 4635, 4644, 4654, 4663, 4673, 4682, 4691, 4700,
    4710, 4718, 4727, 4736, 4745, 4754, 4762, 4771, 4779, 4787,
    4796, 4804, 4812, 4820, 4828, 4836, 4844, 4852, 4860, 4868,
    4875, 4883, 4890, 4898, 4905, 4913, 4920, 4927, 4934, 4942,
    4949, 4956, 4963, 4970, 4977, 4984, 4990, 4997, 5004, 5011,
    5017, 5024, 5030, 5037, 5043, 5050, 5056, 5063, 5069, 5075,
    5081, 5088, 5094, 5100, 5106, 5112, 5118, 5124, 5130, 5136,
    5142, 5147, 5153, 5159, 5165, 5170, 5176, 5182, 5187, 5193,
    5198, 5204, 5209, 5215, 5220, 5226, 5231, 5236, 5242, 5247,
    5252, 5257, 5263, 5268, 5273, 5278, 5283, 5288, 5293, 5298
 >>

\* Math.log(num / den) in thousandths, for integers num and den.
MathLog(num, den) ==
    IF den = 0
    THEN IF num > 0 THEN PosInf ELSE NaN
    ELSE IF num = 0 THEN NegInf
    ELSE IF (num < 0) # (den < 0) THEN NaN
    ELSE LET n == IF num < 0 THEN -num ELSE num
             d == IF den < 0 THEN -den ELSE den
         IN  Fin(LnMilli[n] - LnMilli[d])

(***************************************************************************)
(* Model training (buildLanguageModel)                                     *)
(***************************************************************************)
\* smoothingK is held in units of 1/KScale and lambdaBigram in units of
\* 1/LambdaScale, so that 1.0 is KScale and 0.7 is 7.
KScale == 2
LambdaScale == 10

DefaultSmoothingK == 1 * KScale
DefaultLambdaBigram == 7

BigramIndices == 0 .. (ALPHABET_SIZE * ALPHABET_SIZE - 1)

ZeroCounts ==
    [ unigramCounts |-> [ i \in Indices |-> 0 ],
      bigramCounts  |-> [ b \in BigramIndices |-> 0 ],
      rowTotals     |-> [ i \in Indices |-> 0 ] ]

\* The counting pass with the row total credited to the current symbol
\* instead of the previous one.
CountStepRowOfCurrent(corpus, n, c) ==
    LET currIdx == charToIndex[corpus[n]]
        uni == [ c.unigramCounts EXCEPT ![currIdx] = @ + 1 ]
    IN  IF n > 1
        THEN LET prevIdx == charToIndex[corpus[n - 1]]
                 bigramIdx == prevIdx * 27 + currIdx
             IN  [ unigramCounts |-> uni,
                   bigramCounts  |-> [ c.bigramCounts EXCEPT ![bigramIdx] = @ + 1 ],
                   rowTotals     |-> [ c.rowTotals EXCEPT ![currIdx] = @ + 1 ] ]
        ELSE [ c EXCEPT !.unigramCounts = uni ]

\* One pass of the counting loop, for the 1-based position n of corpus.
CountStep(corpus, n, c) ==
    LET currIdx == charToIndex[corpus[n]]
        uni == [ c.unigramCounts EXCEPT ![currIdx] = @ + 1 ]
    IN  IF n > 1
        THEN LET prevIdx == charToIndex[corpus[n - 1]]
                 bigramIdx == prevIdx * ALPHABET_SIZE + currIdx
             IN  [ unigramCounts |-> uni,
                   bigramCounts  |-> [ c.bigramCounts EXCEPT ![bigramIdx] = @ + 1 ],
                   rowTotals     |-> [ c.rowTotals EXCEPT ![prevIdx] = @ + 1 ] ]
        ELSE [ c EXCEPT !.unigramCounts = uni ]

RECURSIVE CountLoop(_, _, _)
CountLoop(corpus, n, c) ==
    IF n > Len(corpus) THEN c
    ELSE CountLoop(corpus, n + 1, CountStep(corpus, n, c))

CountCorpus(corpus) == CountLoop(corpus, 1, ZeroCounts)

\* (count + smoothingK) and (total + smoothingK * ALPHABET_SIZE), both
\* multiplied by KScale.
SmoothedNumerator(count, smoothingK) == count * KScale + smoothingK

SmoothedDenominator(total, smoothingK) ==
    total * KScale + smoothingK * ALPHABET_SIZE

UnigramLogProbs(c, totalUnigrams, smoothingK) ==
    [ i \in Indices |->
        MathLog(SmoothedNumerator(c.unigramCounts[i], smoothingK),
                SmoothedDenominator(totalUnigrams, smoothingK)) ]

BigramLogProbs(c, smoothingK) ==
    [ b \in BigramIndices |->
        MathLog(SmoothedNumerator(c.bigramCounts[b], smoothingK),
                SmoothedDenominator(c.rowTotals[b \div ALPHABET_SIZE], smoothingK)) ]

\* The corpus check with the limit off by one.
CorpusTooShortOffByOne(corpus) == Len(corpus) < 1

\* The precondition of buildLanguageModel on the normalized corpus.
CorpusTooShort(corpus) == Len(corpus) < 2

NoModel == [ trained |-> FALSE ]

\* The model returned for a normalized corpus that passed the check.
TrainedModel(corpus, smoothingK, lambdaBigram) ==
    LET c == CountCorpus(corpus) IN
    [ trained        |-> TRUE,
      alphabet       |-> ALPHABET,
      unigramLogProb |-> UnigramLogProbs(c, Len(corpus), smoothingK),
      bigramLogProb  |-> BigramLogProbs(c, smoothingK),
      lambdaBigram   |-> lambdaBigram ]

(***************************************************************************)
(* Text scoring (scoreText)                                                *)
(***************************************************************************)
RECURSIVE ScoreLoop(_, _, _, _, _)
ScoreLoop(txt, n, m, scoreUnigram, scoreBigram) ==
    IF n > Len(txt)
    THEN [ scoreUnigram |-> scoreUnigram, scoreBigram |-> scoreBigram ]
    ELSE LET currIdx == charToIndex[txt[n]]
             u == FAdd(scoreUnigram, m.unigramLogProb[currIdx])
         IN  IF n > 1
             THEN LET prevIdx == charToIndex[txt[n - 1]]
                      bigramIdx == prevIdx * ALPHABET_SIZE + currIdx
                  IN  ScoreLoop(txt, n + 1, m, u,
                                FAdd(scoreBigram, m.bigramLogProb[bigramIdx]))
             ELSE ScoreLoop(txt, n + 1, m, u, scoreBigram)

\* The two sums added without the bigram weight.
CombineScoresUnweighted(scoreUnigram, scoreBigram, lambdaBigram) ==
    FAdd(FMul(10, scoreUnigram), FMul(10, scoreBigram))

\* scoreUnigram + lambdaBigram * scoreBigram, in units of
\* 1 / (1000 * LambdaScale).
CombineScores(scoreUnigram, scoreBigram, lambdaBigram) ==
    FAdd(FMul(LambdaScale, scoreUnigram), FMul(lambdaBigram, scoreBigram))

\* The empty text scored as the empty sum.
scoreTextEmptyZero(textRaw, m) ==
    LET txt == normalizeEnglish(textRaw)
        acc == ScoreLoop(txt, 1, m, Fin(0), Fin(0))
    IN  CombineScores(acc.scoreUnigram, acc.scoreBigram, m.lambdaBigram)

scoreText(textRaw, m) ==
    LET txt == normalizeEnglish(textRaw) IN
    IF Len(txt) = 0 THEN NegInf
    ELSE LET acc == ScoreLoop(txt, 1, m, Fin(0), Fin(0))
         IN  CombineScores(acc.scoreUnigram, acc.scoreBigram, m.lambdaBigram)

(***************************************************************************)
(* Substitution keys and codec (substitutionBreaker.ts)                    *)
(***************************************************************************)
createIdentityKey == [ i \in Indices |-> i ]

\* A shuffle loop that stops before its last step (i > 1).
RECURSIVE ShuffleLoopStopsEarly(_, _, _)
ShuffleLoopStopsEarly(key, i, draws) ==
    IF i > 1
    THEN LET j == draws[i]
             temp == key[i]
             k1 == [ key EXCEPT ![i] = key[j] ]
         IN  ShuffleLoopStopsEarly([ k1 EXCEPT ![j] = temp ], i - 1, draws)
    ELSE key

\* The Fisher-Yates loop from position i down to 1; draws[i] is the value
\* of Math.floor(Math.random() * (i + 1)) at step i.  (i is always a
\* position of the key.)
RECURSIVE ShuffleLoop(_, _, _)
ShuffleLoop(key, i, draws) ==
    IF i > 0 /\ i \in DOMAIN key
    THEN LET j == draws[i]
             temp == key[i]
             k1 == [ key EXCEPT ![i] = key[j] ]
         IN  ShuffleLoop([ k1 EXCEPT ![j] = temp ], i - 1, draws)
    ELSE key

createRandomKey(draws) ==
    ShuffleLoop(createIdentityKey, ALPHABET_SIZE - 1, draws)

RECURSIVE FrequencyLoop(_, _, _)
FrequencyLoop(normalized, n, counts) ==
    IF n > Len(normalized) THEN counts
    ELSE FrequencyLoop(normalized, n + 1,
                       [ counts EXCEPT ![charToIndex[normalized[n]]] = @ + 1 ])

countFrequencies(normalized) ==
    FrequencyLoop(normalized, 1, [ i \in Indices |-> 0 ])

targetFreqOrder ==
    << " ", "E", "T", "A", "O", "N", "R", "I", "S", "H", "D", "L", "F", "C",
       "M", "U", "G", "Y", "P", "W", "B", "V", "K", "J", "X", "Q", "Z" >>

\* The comparator written for ascending counts.
CompareCountsAscending(a, b) == a.count - b.count

\* The comparator (a, b) => b.count - a.count: positive when b sorts first.
CompareCounts(a, b) == b.count - a.count

\* An insertion that puts x in front of the elements it ties with.
InsertSortedTiesFirst(sorted, x) ==
    LET behind == { n \in 1 .. Len(sorted) : x.count - sorted[n].count >= 0 }
        at == IF behind = { } THEN Len(sorted) + 1
              ELSE CHOOSE n \in behind : \A m \in behind : n <= m
    IN  SubSeq(sorted, 1, at - 1) \o << x >> \o SubSeq(sorted, at, Len(sorted))

\* Array.prototype.sort is stable: x goes behind every element that does
\* not compare greater than it, that is, in front of the first element
\* that does.
InsertSorted(sorted, x) ==
    LET behind == { n \in 1 .. Len(sorted) : CompareCounts(sorted[n], x) > 0 }
        at == IF behind = { } THEN Len(sorted) + 1
              ELSE CHOOSE n \in behind : \A m \in behind : n <= m
    IN  SubSeq(sorted, 1, at - 1) \o << x >> \o SubSeq(sorted, at, Len(sorted))

\* The pairs are placed one by one; sorted always holds the n - 1 pairs
\* placed so far.
RECURSIVE StableSort(_, _, _)
StableSort(pairs, n, sorted) ==
    IF n > Len(pairs) \/ Len(sorted) # n - 1 THEN sorted
    ELSE StableSort(pairs, n + 1, InsertSorted(sorted, pairs[n]))

RECURSIVE AssignRanks(_, _, _)
AssignRanks(sortedPairs, rank, key) ==
    IF rank >= ALPHABET_SIZE \/ rank \notin DOMAIN key THEN key
    ELSE LET cipherIdx == sortedPairs[rank + 1].idx
             plainIdx == charToIndex[targetFreqOrder[rank + 1]]
         IN  AssignRanks(sortedPairs, rank + 1, [ key EXCEPT ![cipherIdx] = plainIdx ])

buildFrequencyInitialKey(cipherNormalized) ==
    LET counts == countFrequencies(cipherNormalized)
        indexCountPairs ==
            [ n \in 1 .. ALPHABET_SIZE |-> [ idx |-> n - 1, count |-> counts[n - 1] ] ]
        sortedPairs == StableSort(indexCountPairs, 1, << >>)
    IN  AssignRanks(sortedPairs, 0, [ i \in Indices |-> 0 ])

\* The decoding loop stopped one character early.
applySubstitutionShort(cipherNormalized, key) ==
    [ n \in 1 .. (Len(cipherNormalized) - 1) |->
        indexToChar[key[charToIndex[cipherNormalized[n]]]] ]

applySubstitutionToNormalized(cipherNormalized, key) ==
    [ n \in 1 .. Len(cipherNormalized) |->
        indexToChar[key[charToIndex[cipherNormalized[n]]]] ]

\* The table read in the wrong direction: plaintext symbol to the ciphertext
\* symbol the key decodes to it.
keyToMappingReversed(key) ==
    [ plainChar \in AlphabetChars |->
        ALPHABET[(CHOOSE i \in 0 .. 26 : key[i] = charToIndex[plainChar]) + 1] ]

keyToMapping(key) ==
    [ cipherChar \in AlphabetChars |-> ALPHABET[key[charToIndex[cipherChar]] + 1] ]

(***************************************************************************)
(* Preconditions, option defaults and comparisons of the breaker           *)
(***************************************************************************)
\* options.field ?? default
OptionOr(options, field, default) ==
    IF field \in DOMAIN options THEN options[field] ELSE default

DefaultRestarts == 20
DefaultMaxIterations == 5000

\* The emptiness check made on the raw ciphertext.
IsEmptyRawCiphertext(raw, normalized) == Len(raw) = 0

\* if (cipherNormalized.length === 0) throw
IsEmptyCiphertext(raw, normalized) == Len(normalized) = 0

\* The frequency key chosen at every restart.
UsesFrequencyKeyEveryRestart(restart, useFrequencyInit) == useFrequencyInit

\* if (r === 0 && useFrequencyInit)
UsesFrequencyKey(restart, useFrequencyInit) == restart = 0 /\ useFrequencyInit

\* The climb writing to the array it was given.
CurrentKeyIsAlias == FALSE

\* Line 217: currentKey is a new Int16Array filled from initialKey, so the
\* writes of line 251 (currentKey.set) do not reach initialKey.
CurrentKeyIsCopy == TRUE

\* A neighbor built without the swap.
NeighborOfUnswapped(key, i, j) == key

\* The neighbor built without the temporary: position j keeps its value.
NeighborOfNoTemp(key, i, j) ==
    LET k1 == [ key EXCEPT ![i] = key[j] ]
    IN  [ k1 EXCEPT ![j] = k1[i] ]

\* A copy of the current key with positions i and j swapped.
NeighborOf(key, i, j) ==
    LET copy == key
        temp == copy[i]
        k1 == [ copy EXCEPT ![i] = copy[j] ]
    IN  [ k1 EXCEPT ![j] = temp ]

\* The acceptance test letting an equal score through.
AcceptsNeighborOrTies(neighborScore, current) == ~GT(current, neighborScore)

\* if (neighborScore > currentScore)
AcceptsNeighbor(neighborScore, current) == GT(neighborScore, current)

\* The best-so-far test with its operands exchanged.
ImprovesBestReversed(current, best) == GT(best, current)

\* if (currentScore > bestScore)
ImprovesBest(current, best) == GT(current, best)

\* The global update with >= in place of >.
ImprovesGlobalOrTies(score, globalBest) ==
    GT(score, globalBest) \/ (score = globalBest /\ score # NaN)

\* if (result.score > globalBestScore)
ImprovesGlobal(score, globalBest) == GT(score, globalBest)

NoKey == << >>
NoResult == [ returned |-> FALSE ]

(***************************************************************************)
(* State                                                                   *)
(***************************************************************************)
VARIABLES
    pc,               \* position of the running operation
    error,            \* the error thrown, "none" when none
    text,             \* normalizeEnglish: the raw argument
    normalized,       \* normalizeEnglish: the value returned
    renormalized,     \* normalizeEnglish applied to its own output
    textScore,        \* scoreText: the value returned
    corpusRaw,        \* buildLanguageModel: the raw corpus
    trainOptions,     \* buildLanguageModel: the options argument
    corpus,           \* buildLanguageModel: the normalized corpus
    counts,           \* buildLanguageModel: the three count tables
    model,            \* the language model returned by training
    codecText,        \* codec: a text over the alphabet
    codecKey,         \* codec: a key
    codecCipher,      \* codec: codecText after the substitution
    codecPlain,       \* codec: codecCipher after the inverse substitution
    keySize,          \* number of positions of a key (ALPHABET_SIZE)
    ciphertextRaw,    \* breakSubstitutionCipher: the raw ciphertext
    options,          \* breakSubstitutionCipher: the options argument
    consoleLog,       \* lines written by console.log
    cipherNormalized, \* the normalized ciphertext
    r,                \* index of the restart
    iter,             \* index of the hill-climbing iteration
    initialKey,       \* key chosen for the restart
    currentKey, currentPlain, currentScore,
    neighborKey, neighborScore,
    bestKey, bestPlain, bestScore,
    globalBestKey, globalBestPlain, globalBestScore,
    restartResults,   \* the value returned by each hillClimbSubstitution call
    result,           \* the value returned by breakSubstitutionCipher
    draws,            \* number of Math.random() calls made, re-draws excepted
    evals             \* number of decode + score evaluations made

normVars == << text, normalized, renormalized, textScore >>
trainVars == << corpusRaw, trainOptions, corpus, counts >>
codecVars == << codecText, codecKey, codecCipher, codecPlain, keySize >>
climbVars ==
    << iter, initialKey, currentKey, currentPlain, currentScore, neighborKey,
       neighborScore, bestKey, bestPlain, bestScore >>
globalVars == << globalBestKey, globalBestPlain, globalBestScore >>
breakVars ==
    << ciphertextRaw, options, consoleLog, cipherNormalized, r, climbVars,
       globalVars, restartResults, result, draws, evals >>
vars == << pc, error, normVars, trainVars, model, codecVars, breakVars >>

(***************************************************************************)
(* Bounded inputs                                                          *)
(***************************************************************************)
SeqsUpTo(S, n) == UNION { [ 1 .. m -> S ] : m \in 0 .. n }

\* Raw characters: a lower-case and an upper-case letter, a space, a line
\* break, a tab, a punctuation mark, a digit, a hyphen and a letter whose
\* upper-case form has two characters.
RawChars == { "a", "B", " ", "\n", "\t", ".", "1", "-", "ß" }
RawTexts == SeqsUpTo(RawChars, MaxRawLen)

CorpusChars == { "a", "B", " ", "1" }
RawCorpora == SeqsUpTo(CorpusChars, MaxCorpusLen)
SmoothingKs == 0 .. MaxSmoothingK
LambdaBigrams == { 0, DefaultLambdaBigram }
TrainOptionSets ==
    { << >> }
    \cup { [ smoothingK |-> k ] : k \in SmoothingKs }
    \cup { [ smoothingK |-> k, lambdaBigram |-> l ] :
             k \in SmoothingKs, l \in LambdaBigrams }

\* Candidate texts handed to scoreText: letters of either case, a space, a
\* punctuation mark and a digit.
ScoreChars == { "a", "B", " ", ".", "1" }
ScoreTexts == SeqsUpTo(ScoreChars, MaxScoreLen)

\* The models handed to scoreText: trained on a short corpus with every
\* smoothing constant and both bigram weights.
ScoreCorpus == << "a", "b", " ", "a", "a" >>
ScoreModels ==
    { TrainedModel(normalizeEnglish(ScoreCorpus), k, l) :
        k \in SmoothingKs, l \in LambdaBigrams }

\* Raw ciphertexts: texts of letters of either case, and blank texts.
CipherLetters == { "A", "b" }
RawCiphertexts ==
    SeqsUpTo(CipherLetters, MaxCipherLen) \cup SeqsUpTo({ " " }, MaxCipherLen)

\* The models handed to the breaker: trained on a short corpus with the
\* default smoothing and with two bigram weights.
BreakCorpus == << "a", "b", " ", "a" >>
BreakModels ==
    { TrainedModel(normalizeEnglish(BreakCorpus), DefaultSmoothingK, l) :
        l \in LambdaBigrams }

\* The options argument: every field given, no field given, and the two
\* budgets given without useFrequencyInit.
BreakOptionSets ==
    [ restarts : 0 .. MaxRestarts,
      maxIterations : 0 .. MaxIterations,
      useFrequencyInit : BOOLEAN ]
    \cup { << >> }
    \cup { [ restarts |-> MaxRestarts, maxIterations |-> MaxIterations ] }

\* Values of Math.floor(Math.random() * n) considered: the first, the second
\* and the last alphabet index, which are the positions of the symbols the
\* bounded ciphertexts are made of.
RandomPositions == { 0, 1, ALPHABET_SIZE - 1 }

\* Draw sequences of the shuffle considered: the first step (i = 26) draws
\* from RandomPositions, every later step i draws i.
ShuffleDraws ==
    { [ i \in 1 .. (ALPHABET_SIZE - 1) |-> IF i = ALPHABET_SIZE - 1 THEN j ELSE i ] :
      j \in RandomPositions }

(***************************************************************************)
(* Initial values of the variables an operation does not use               *)
(***************************************************************************)
IdleNormalize ==
    /\ text = << >>
    /\ normalized = << >>
    /\ renormalized = << >>
    /\ textScore = NegInf

IdleTrain ==
    /\ corpusRaw = << >>
    /\ trainOptions = << >>
    /\ corpus = << >>
    /\ counts = ZeroCounts

IdleCodec ==
    /\ codecText = << >>
    /\ codecKey = NoKey
    /\ codecCipher = << >>
    /\ codecPlain = << >>
    /\ keySize = ALPHABET_SIZE

IdleClimb ==
    /\ iter = 0
    /\ initialKey = NoKey
    /\ currentKey = NoKey
    /\ currentPlain = << >>
    /\ currentScore = NegInf
    /\ neighborKey = NoKey
    /\ neighborScore = NegInf
    /\ bestKey = NoKey
    /\ bestPlain = << >>
    /\ bestScore = NegInf

IdleBreak ==
    /\ consoleLog = << >>
    /\ cipherNormalized = << >>
    /\ r = 0
    /\ IdleClimb
    /\ globalBestKey = NoKey
    /\ globalBestPlain = << >>
    /\ globalBestScore = NegInf
    /\ restartResults = << >>
    /\ result = NoResult
    /\ draws = 0
    /\ evals = 0

(***************************************************************************)
(* normalizeEnglish                                                        *)
(***************************************************************************)
InitNormalize ==
    /\ pc = "normalize"
    /\ error = "none"
    /\ text \in RawTexts
    /\ normalized = << >>
    /\ renormalized = << >>
    /\ textScore = NegInf
    /\ IdleTrain
    /\ model = NoModel
    /\ IdleCodec
    /\ ciphertextRaw = << >>
    /\ options = << >>
    /\ IdleBreak

Normalize ==
    /\ pc = "normalize"
    /\ normalized' = normalizeEnglish(text)
    /\ pc' = "normalized"
    /\ UNCHANGED << error, text, renormalized, textScore, trainVars, model, codecVars,
                    breakVars >>

NormalizeAgain ==
    /\ pc = "normalized"
    /\ renormalized' = normalizeEnglish(normalized)
    /\ pc' = "renormalized"
    /\ UNCHANGED << error, text, normalized, textScore, trainVars, model, codecVars,
                    breakVars >>

NextNormalize == Normalize \/ NormalizeAgain

SpecNormalize == InitNormalize /\ [][NextNormalize]_vars

(***************************************************************************)
(* buildLanguageModel                                                      *)
(***************************************************************************)
InitTrain ==
    /\ pc = "train"
    /\ error = "none"
    /\ IdleNormalize
    /\ corpusRaw \in RawCorpora
    /\ trainOptions \in TrainOptionSets
    /\ corpus = << >>
    /\ counts = ZeroCounts
    /\ model = NoModel
    /\ IdleCodec
    /\ ciphertextRaw = << >>
    /\ options = << >>
    /\ IdleBreak

BuildLanguageModel ==
    /\ pc = "train"
    /\ LET smoothingK == OptionOr(trainOptions, "smoothingK", DefaultSmoothingK)
           lambdaBigram == OptionOr(trainOptions, "lambdaBigram", DefaultLambdaBigram)
           c == normalizeEnglish(corpusRaw)
       IN  /\ corpus' = c
           /\ IF CorpusTooShort(c)
              THEN /\ error' = "InsufficientCorpus"
                   /\ pc' = "threw"
                   /\ UNCHANGED << counts, model >>
              ELSE /\ counts' = CountCorpus(c)
                   /\ model' = TrainedModel(c, smoothingK, lambdaBigram)
                   /\ pc' = "trained"
                   /\ UNCHANGED error
    /\ UNCHANGED << normVars, corpusRaw, trainOptions, codecVars, breakVars >>

NextTrain == BuildLanguageModel

SpecTrain == InitTrain /\ [][NextTrain]_vars

(***************************************************************************)
(* scoreText                                                               *)
(***************************************************************************)
InitScore ==
    /\ pc = "score"
    /\ error = "none"
    /\ text \in ScoreTexts
    /\ normalized = << >>
    /\ renormalized = << >>
    /\ textScore = NegInf
    /\ IdleTrain
    /\ model \in ScoreModels
    /\ IdleCodec
    /\ ciphertextRaw = << >>
    /\ options = << >>
    /\ IdleBreak

ScoreText ==
    /\ pc = "score"
    /\ normalized' = normalizeEnglish(text)
    /\ textScore' = scoreText(text, model)
    /\ pc' = "scored"
    /\ UNCHANGED << error, text, renormalized, trainVars, model, codecVars,
                    breakVars >>

NextScore == ScoreText

SpecScore == InitScore /\ [][NextScore]_vars

(***************************************************************************)
(* The codec: a substitution followed by the inverse substitution          *)
(***************************************************************************)
\* Every index 0..26 appears exactly once: 27 entries whose values are all of
\* 0..26.
IsPermutation(key) ==
    /\ DOMAIN key = Indices
    /\ { key[i] : i \in Indices } = Indices

\* The key that sends key[i] back to i.
InverseKey(key) ==
    [ v \in Indices |-> CHOOSE i \in Indices : key[i] = v ]

\* Normalized texts over four symbols of the alphabet.
CodecChars == { "A", "E", "Z", " " }
CodecTexts ==
    { t \in SeqsUpTo(CodecChars, MaxCodecLen) : normalizeEnglish(t) = t }

CodecKeys ==
    { createIdentityKey }
    \cup { createRandomKey(d) : d \in ShuffleDraws }
    \cup { buildFrequencyInitialKey(t) : t \in CodecTexts }

InitCodec ==
    /\ pc = "encipher"
    /\ error = "none"
    /\ IdleNormalize
    /\ IdleTrain
    /\ model = NoModel
    /\ codecText \in CodecTexts
    /\ codecKey \in CodecKeys
    /\ codecCipher = << >>
    /\ codecPlain = << >>
    /\ keySize = ALPHABET_SIZE
    /\ ciphertextRaw = << >>
    /\ options = << >>
    /\ IdleBreak

Encipher ==
    /\ pc = "encipher"
    /\ codecCipher' = applySubstitutionToNormalized(codecText, codecKey)
    /\ pc' = "decipher"
    /\ UNCHANGED << error, normVars, trainVars, model, codecText, codecKey,
                    codecPlain, keySize, breakVars >>

Decipher ==
    /\ pc = "decipher"
    /\ codecPlain' = applySubstitutionToNormalized(codecCipher, InverseKey(codecKey))
    /\ pc' = "deciphered"
    /\ UNCHANGED << error, normVars, trainVars, model, codecText, codecKey,
                    codecCipher, keySize, breakVars >>

NextCodec == Encipher \/ Decipher

SpecCodec == InitCodec /\ [][NextCodec]_vars

(***************************************************************************)
(* createRandomKey over a key of keySize positions                         *)
(***************************************************************************)
\* createIdentityKey for a key of n positions.
IdentityOfSize(n) == [ i \in 0 .. (n - 1) |-> i ]

\* Every outcome of the draws of one shuffle of n positions: at step i,
\* Math.floor(Math.random() * (i + 1)) is any of 0 .. i.
DrawsOfSize(n) ==
    { d \in [ 1 .. (n - 1) -> 0 .. (n - 1) ] : \A i \in 1 .. (n - 1) : d[i] <= i }

\* createRandomKey with ALPHABET_SIZE replaced by n.
RandomKeyOfSize(n, d) == ShuffleLoop(IdentityOfSize(n), n - 1, d)

InitShuffle ==
    /\ pc = "shuffle"
    /\ error = "none"
    /\ IdleNormalize
    /\ IdleTrain
    /\ model = NoModel
    /\ codecText = << >>
    /\ codecKey = NoKey
    /\ codecCipher = << >>
    /\ codecPlain = << >>
    /\ keySize \in 1 .. MaxShuffleN
    /\ ciphertextRaw = << >>
    /\ options = << >>
    /\ IdleBreak

CreateRandomKey ==
    /\ pc = "shuffle"
    /\ \E d \in DrawsOfSize(keySize) : codecKey' = RandomKeyOfSize(keySize, d)
    /\ pc' = "shuffled"
    /\ UNCHANGED << error, normVars, trainVars, model, codecText, codecCipher,
                    codecPlain, keySize, breakVars >>

NextShuffle == CreateRandomKey

SpecShuffle == InitShuffle /\ [][NextShuffle]_vars

(***************************************************************************)
(* buildFrequencyInitialKey and the first decode of a restart              *)
(***************************************************************************)
\* Normalized ciphertexts over three letters and the space.
SeedChars == { "A", "B", "Z", " " }
SeedTexts == { t \in SeqsUpTo(SeedChars, MaxSeedLen) : normalizeEnglish(t) = t }

InitSeed ==
    /\ pc = "seed"
    /\ error = "none"
    /\ IdleNormalize
    /\ IdleTrain
    /\ model = NoModel
    /\ codecText \in SeedTexts
    /\ codecKey = NoKey
    /\ codecCipher = << >>
    /\ codecPlain = << >>
    /\ keySize = ALPHABET_SIZE
    /\ ciphertextRaw = << >>
    /\ options = << >>
    /\ IdleBreak

BuildFrequencyKey ==
    /\ pc = "seed"
    /\ codecKey' = buildFrequencyInitialKey(codecText)
    /\ pc' = "seeded"
    /\ UNCHANGED << error, normVars, trainVars, model, codecText, codecCipher,
                    codecPlain, keySize, breakVars >>

DecodeSeeded ==
    /\ pc = "seeded"
    /\ codecPlain' = applySubstitutionToNormalized(codecText, codecKey)
    /\ pc' = "seed-decoded"
    /\ UNCHANGED << error, normVars, trainVars, model, codecText, codecKey,
                    codecCipher, keySize, breakVars >>

NextSeed == BuildFrequencyKey \/ DecodeSeeded

SpecSeed == InitSeed /\ [][NextSeed]_vars

(***************************************************************************)
(* breakSubstitutionCipher                                                 *)
(***************************************************************************)
Init ==
    /\ pc = "call"
    /\ error = "none"
    /\ IdleNormalize
    /\ IdleTrain
    /\ model \in BreakModels
    /\ IdleCodec
    /\ ciphertextRaw \in RawCiphertexts
    /\ options \in BreakOptionSets
    /\ IdleBreak

restarts == OptionOr(options, "restarts", DefaultRestarts)
\* The iteration budget taken one too large.
maxIterationsOneMore ==
    (IF "maxIterations" \in DOMAIN options THEN options.maxIterations ELSE 5000) + 1

maxIterations == OptionOr(options, "maxIterations", DefaultMaxIterations)
useFrequencyInit == OptionOr(options, "useFrequencyInit", TRUE)

\* Normalization, the console.log line and the precondition check.
BreakStart ==
    /\ pc = "call"
    /\ LET n == normalizeEnglish(ciphertextRaw) IN
       /\ cipherNormalized' = n
       /\ consoleLog' = Append(consoleLog, n)
       /\ IF IsEmptyCiphertext(ciphertextRaw, n)
          THEN /\ error' = "EmptyCiphertext"
               /\ pc' = "threw"
               /\ UNCHANGED << r, globalVars >>
          ELSE /\ r' = 0
               /\ globalBestKey' = NoKey
               /\ globalBestPlain' = << >>
               /\ globalBestScore' = NegInf
               /\ pc' = "loop"
               /\ UNCHANGED error
    /\ UNCHANGED << normVars, trainVars, model, codecVars, ciphertextRaw, options,
                    climbVars, restartResults, result, draws, evals >>

\* The choice of the initial key and the first lines of
\* hillClimbSubstitution, up to the loop.  A run is followed for MaxRestarts
\* restarts at most.
RestartBegin ==
    /\ pc = "loop"
    /\ r < restarts
    /\ r < MaxRestarts
    /\ IF UsesFrequencyKey(r, useFrequencyInit)
       THEN /\ initialKey' = buildFrequencyInitialKey(cipherNormalized)
            /\ UNCHANGED draws
       ELSE \E d \in ShuffleDraws :
              /\ initialKey' = createRandomKey(d)
              /\ draws' = draws + (ALPHABET_SIZE - 1)
    /\ currentKey' = initialKey'
    /\ currentPlain' = applySubstitutionToNormalized(cipherNormalized, currentKey')
    /\ currentScore' = scoreText(currentPlain', model)
    /\ bestKey' = currentKey'
    /\ bestPlain' = currentPlain'
    /\ bestScore' = currentScore'
    /\ iter' = 0
    /\ evals' = evals + 1
    /\ pc' = "climb"
    /\ UNCHANGED << error, normVars, trainVars, model, codecVars, ciphertextRaw,
                    options, consoleLog, cipherNormalized, r, neighborKey,
                    neighborScore, globalVars, restartResults, result >>

\* One iteration of the hill-climbing loop.  (i, j) is the pair of positions
\* the loop of lines 234-236 ends with; the draws it repeats are not counted.
\* A restart is followed for MaxIterations iterations at most.
Iterate ==
    /\ pc = "climb"
    /\ iter < maxIterations
    /\ iter < MaxIterations
    /\ \E i \in RandomPositions, j \in RandomPositions :
         /\ i # j
         /\ draws' = draws + 2
         /\ neighborKey' = NeighborOf(currentKey, i, j)
    /\ LET neighborPlain == applySubstitutionToNormalized(cipherNormalized, neighborKey')
       IN  /\ neighborScore' = scoreText(neighborPlain, model)
           /\ IF AcceptsNeighbor(neighborScore', currentScore)
              THEN /\ currentKey' = neighborKey'
                   /\ currentPlain' = neighborPlain
                   /\ currentScore' = neighborScore'
                   /\ IF ImprovesBest(currentScore', bestScore)
                      THEN /\ bestKey' = currentKey'
                           /\ bestPlain' = currentPlain'
                           /\ bestScore' = currentScore'
                      ELSE UNCHANGED << bestKey, bestPlain, bestScore >>
              ELSE UNCHANGED << currentKey, currentPlain, currentScore,
                                bestKey, bestPlain, bestScore >>
    /\ initialKey' = IF CurrentKeyIsCopy THEN initialKey ELSE currentKey'
    /\ iter' = iter + 1
    /\ evals' = evals + 1
    /\ UNCHANGED << pc, error, normVars, trainVars, model, codecVars, ciphertextRaw,
                    options, consoleLog, cipherNormalized, r,
                    globalVars, restartResults, result >>

\* The return of hillClimbSubstitution and the update of the global best.
\* The locals of hillClimbSubstitution and initialKey go out of scope.
RestartEnd ==
    /\ pc = "climb"
    /\ ~(iter < maxIterations)
    /\ LET res == [ key |-> bestKey, plaintext |-> bestPlain, score |-> bestScore ]
       IN  /\ restartResults' = Append(restartResults, res)
           /\ IF ImprovesGlobal(res.score, globalBestScore)
              THEN /\ globalBestKey' = res.key
                   /\ globalBestPlain' = res.plaintext
                   /\ globalBestScore' = res.score
              ELSE UNCHANGED globalVars
    /\ iter' = 0
    /\ initialKey' = NoKey
    /\ currentKey' = NoKey
    /\ currentPlain' = << >>
    /\ currentScore' = NegInf
    /\ neighborKey' = NoKey
    /\ neighborScore' = NegInf
    /\ bestKey' = NoKey
    /\ bestPlain' = << >>
    /\ bestScore' = NegInf
    /\ r' = r + 1
    /\ pc' = "loop"
    /\ UNCHANGED << error, normVars, trainVars, model, codecVars, ciphertextRaw,
                    options, consoleLog, cipherNormalized, result, draws, evals >>

\* The end of the restart loop: the null check and the returned value.
Finish ==
    /\ pc = "loop"
    /\ ~(r < restarts)
    /\ IF globalBestKey = NoKey
       THEN /\ error' = "NoSolution"
            /\ pc' = "threw"
            /\ UNCHANGED result
       ELSE /\ result' = [ returned  |-> TRUE,
                           plaintext |-> globalBestPlain,
                           key       |-> globalBestKey,
                           mapping   |-> keyToMapping(globalBestKey),
                           score     |-> globalBestScore ]
            /\ pc' = "returned"
            /\ UNCHANGED error
    /\ UNCHANGED << normVars, trainVars, model, codecVars, ciphertextRaw, options,
                    consoleLog, cipherNormalized, r, climbVars, globalVars,
                    restartResults, draws, evals >>

Next == BreakStart \/ RestartBegin \/ Iterate \/ RestartEnd \/ Finish

Spec == Init /\ [][Next]_vars

\* Some step of the call can be taken: the disjunction of the guards of the
\* five actions, which is ENABLED <<Next>>_vars.
CanStep ==
    \/ pc = "call"
    \/ pc = "loop" /\ ((r < restarts /\ r < MaxRestarts) \/ ~(r < restarts))
    \/ pc = "climb" /\ ((iter < maxIterations /\ iter < MaxIterations)
                          \/ ~(iter < maxIterations))

\* A step of the call as pc and iter show it: every step of Next changes one
\* of the two, and nothing else does.
Advance ==
    /\ CanStep
    /\ pc' \in { "call", "loop", "climb", "threw", "returned" }
    /\ iter' \in 0 .. MaxIterations

\* The calls whose end is followed: a ciphertext of one symbol and one of two.
FairCiphertexts == { << "b" >>, << "A", "b" >> }

InitFair == Init /\ ciphertextRaw \in FairCiphertexts

\* The call keeps running: the loops of the function take their next step,
\* and the re-draw loop of lines 234-236, whose passes change nothing the
\* model holds, ends.  Under Next this is WF_vars(Next), with the enabling
\* condition written out as CanStep.
FairSpec == InitFair /\ [][Next]_vars /\ WF_<<pc, iter>>(Advance)

(***************************************************************************)
(* Properties                                                              *)
(***************************************************************************)
\* The order of scores used by the properties: a is strictly below b.
Below(a, b) ==
    /\ a.kind # "NaN"
    /\ b.kind # "NaN"
    /\ \/ a.kind = "finite" /\ b.kind = "finite" /\ a.val < b.val
       \/ a.kind = "-Infinity" /\ b.kind # "-Infinity"
       \/ a.kind # "+Infinity" /\ b.kind = "+Infinity"

\* C1: when the normalized form of the raw ciphertext is empty,
\* breakSubstitutionCipher throws EmptyCiphertext, and it does so before any
\* search work: no initial key, no random draw, no decode or scoring, no
\* restart result, no global best and no returned value.
EmptyCiphertextFailsBeforeSearch ==
    (pc # "call" /\ normalizeEnglish(ciphertextRaw) = << >>) =>
        /\ pc = "threw"
        /\ error = "EmptyCiphertext"
        /\ initialKey = NoKey
        /\ currentKey = NoKey
        /\ globalBestKey = NoKey
        /\ restartResults = << >>
        /\ draws = 0
        /\ evals = 0
        /\ result = NoResult

\* C1 witness: a non-empty raw ciphertext whose normalized form is empty has
\* been rejected.
EmptyCiphertextRejected ==
    /\ pc = "threw"
    /\ error = "EmptyCiphertext"
    /\ ciphertextRaw # << >>
    /\ cipherNormalized = << >>

\* C2: EmptyCiphertext is the only error of breakSubstitutionCipher: the
\* 'No solution found' error is never thrown, and every call on a non-empty
\* normalized ciphertext that has ended has returned a result.
OnlyEmptyCiphertextFails ==
    /\ error \in { "none", "EmptyCiphertext" }
    /\ (pc = "threw" => cipherNormalized = << >>)
    /\ (pc = "returned" => result.returned)

\* C3: buildLanguageModel throws InsufficientCorpus and returns no model and
\* no tables when the normalized corpus has fewer than 2 symbols, and returns
\* a model otherwise.
ShortCorpusFails ==
    pc # "train" =>
        IF Len(normalizeEnglish(corpusRaw)) < 2
        THEN /\ pc = "threw"
             /\ error = "InsufficientCorpus"
             /\ model = NoModel
             /\ counts = ZeroCounts
        ELSE /\ pc = "trained"
             /\ error = "none"
             /\ model.trained

\* C3 witness: a corpus whose normalized form has exactly one symbol has been
\* rejected.
OneSymbolCorpusRejected ==
    /\ pc = "threw"
    /\ error = "InsufficientCorpus"
    /\ Len(corpus) = 1

NormalizeIsIdempotent ==
    pc = "renormalized" => renormalized = normalized

\* C5 witness: an output that differs from its input and holds a space has
\* been normalized again.
RenormalizedChangedText ==
    /\ pc = "renormalized"
    /\ normalized # text
    /\ \E n \in 1 .. Len(normalized) : normalized[n] = " "

\* C6: every returned model has a unigram table of 27 entries and a bigram
\* table of 729 entries, every entry finite and at most 0: each smoothed
\* numerator is strictly positive and at most its denominator, and no
\* denominator is zero.
TablesAreFiniteLogProbs ==
    pc = "trained" =>
        LET k == OptionOr(trainOptions, "smoothingK", DefaultSmoothingK)
            uDen == SmoothedDenominator(Len(corpus), k)
        IN  /\ Cardinality(DOMAIN model.unigramLogProb) = 27
            /\ Cardinality(DOMAIN model.bigramLogProb) = 729
            /\ \A i \in DOMAIN model.unigramLogProb :
                  /\ IsFinite(model.unigramLogProb[i])
                  /\ model.unigramLogProb[i].val <= 0
            /\ \A b \in DOMAIN model.bigramLogProb :
                  /\ IsFinite(model.bigramLogProb[b])
                  /\ model.bigramLogProb[b].val <= 0
            /\ uDen # 0
            /\ \A i \in Indices :
                  LET num == SmoothedNumerator(counts.unigramCounts[i], k)
                  IN  num > 0 /\ num <= uDen
            /\ \A b \in BigramIndices :
                  LET num == SmoothedNumerator(counts.bigramCounts[b], k)
                      den == SmoothedDenominator(counts.rowTotals[b \div ALPHABET_SIZE], k)
                  IN  den # 0 /\ num > 0 /\ num <= den

KeyVarIsPermutation(key) == key = NoKey \/ IsPermutation(key)

\* C7: every key is a permutation of 0..26: the identity key, the initial key
\* of every restart (frequency-seeded or shuffled), and every current,
\* neighbor, restart-best, global-best and returned key.
KeysArePermutations ==
    /\ IsPermutation(createIdentityKey)
    /\ KeyVarIsPermutation(initialKey)
    /\ KeyVarIsPermutation(currentKey)
    /\ KeyVarIsPermutation(neighborKey)
    /\ KeyVarIsPermutation(bestKey)
    /\ KeyVarIsPermutation(globalBestKey)
    /\ \A n \in 1 .. Len(restartResults) : IsPermutation(restartResults[n].key)
    /\ (result.returned => IsPermutation(result.key))

\* C7 witness: in a restart that started from a shuffled key, a neighbor has
\* been accepted.
AcceptedNeighborOfShuffledKey ==
    /\ pc = "climb"
    /\ ~UsesFrequencyKey(r, useFrequencyInit)
    /\ initialKey # createIdentityKey
    /\ iter >= 1
    /\ currentKey = neighborKey
    /\ currentKey # initialKey

\* C8: a substitution with a key followed by the substitution with the
\* inverse key gives back the text; a substitution keeps the length of the
\* text, and with the identity key it returns the text unchanged.
CodecRoundTrip ==
    /\ pc # "encipher" =>
          /\ Len(codecCipher) = Len(codecText)
          /\ (codecKey = createIdentityKey => codecCipher = codecText)
    /\ pc = "deciphered" =>
          /\ Len(codecPlain) = Len(codecCipher)
          /\ codecPlain = codecText

\* C8 witness: a text of two or more symbols has been changed by the key and
\* deciphered.
CodecDecipheredChangedText ==
    /\ pc = "deciphered"
    /\ Len(codecText) >= 2
    /\ codecCipher # codecText

\* C9: within a restart, an iteration never lowers the recorded best score.
BestScoreNeverDecreases ==
    [][ (pc = "climb" /\ pc' = "climb") => ~Below(bestScore', bestScore) ]_vars

\* C9 witness: after two iterations or more the best score is above the
\* score of the initial key and the last neighbor scored below the best.
BestImprovedThenNeighborRejected ==
    /\ pc = "climb"
    /\ iter >= 2
    /\ Below(scoreText(applySubstitutionToNormalized(cipherNormalized, initialKey),
                       model), bestScore)
    /\ Below(neighborScore, bestScore)

\* C10: the returned result is the result of the earliest restart that
\* reached the maximal score: no restart scored above it, and its key and
\* plaintext are those of the first restart with that score.
ResultIsFirstArgMax ==
    pc = "returned" =>
        /\ \A n \in 1 .. Len(restartResults) :
              ~Below(result.score, restartResults[n].score)
        /\ \E n \in 1 .. Len(restartResults) :
              /\ restartResults[n].score = result.score
              /\ \A m \in 1 .. (n - 1) : Below(restartResults[m].score, result.score)
              /\ restartResults[n].key = result.key
              /\ restartResults[n].plaintext = result.plaintext

\* C10 witness: two restarts reached the same score with different keys and
\* a result has been returned.
ReturnedAfterTie ==
    /\ pc = "returned"
    /\ Len(restartResults) >= 2
    /\ restartResults[1].score = restartResults[2].score
    /\ restartResults[1].key # restartResults[2].key
    /\ result.score = restartResults[1].score

\* C11: the fields of the returned result are consistent: the plaintext is the
\* normalized ciphertext decoded with the returned key, the score is the score
\* of that plaintext under the model, and the mapping sends the symbol of
\* every alphabet index c to the symbol of index key[c]; the mapping has
\* exactly 27 entries and is a bijection on the alphabet.
ResultFieldsAreConsistent ==
    pc = "returned" =>
        /\ result.plaintext = applySubstitutionToNormalized(cipherNormalized, result.key)
        /\ result.score = scoreText(result.plaintext, model)
        /\ DOMAIN result.mapping = AlphabetChars
        /\ Cardinality(DOMAIN result.mapping) = 27
        /\ \A c \in Indices :
              result.mapping[ALPHABET[c + 1]] = ALPHABET[result.key[c] + 1]
        /\ { result.mapping[s] : s \in AlphabetChars } = AlphabetChars

\* C11 witness: a result has been returned whose key is not its own inverse
\* and whose plaintext has two symbols and differs from the ciphertext.
ReturnedWithNonInvolutiveKey ==
    /\ pc = "returned"
    /\ Len(result.plaintext) = 2
    /\ result.plaintext # cipherNormalized
    /\ \E c \in Indices : result.key[result.key[c]] # c

\* The text decoded by the neighbor key of the last iteration.
NeighborPlain == applySubstitutionToNormalized(cipherNormalized, neighborKey)

\* The score recorded for a candidate text is -Infinity when the normalized
\* form of the text is empty and is above -Infinity otherwise.
EmptyScoresLowest(plain, score) ==
    IF normalizeEnglish(plain) = << >>
    THEN score = NegInf
    ELSE Below(NegInf, score)

\* Every candidate the restart holds has been scored that way.
CandidatesScoredLowestWhenEmpty ==
    pc = "climb" =>
        /\ EmptyScoresLowest(currentPlain, currentScore)
        /\ EmptyScoresLowest(bestPlain, bestScore)
        /\ (iter >= 1 => EmptyScoresLowest(NeighborPlain, neighborScore))

RECURSIVE UnigramSum(_, _, _)
UnigramSum(t, m, n) ==
    IF n = 0 THEN Fin(0)
    ELSE FAdd(UnigramSum(t, m, n - 1), m.unigramLogProb[charToIndex[t[n]]])

\* The sum of the bigram entries of the adjacent pairs within positions
\* 1..n of t.
RECURSIVE BigramSum(_, _, _)
BigramSum(t, m, n) ==
    IF n <= 1 THEN Fin(0)
    ELSE FAdd(BigramSum(t, m, n - 1),
              m.bigramLogProb[charToIndex[t[n - 1]] * 27 + charToIndex[t[n]]])

\* C13: for a candidate whose normalized form t is not empty, the score is
\* the sum of the unigram entries of all positions of t plus the bigram
\* weight times the sum of the bigram entries of all adjacent pairs of t:
\* Len(t) unigram terms and Len(t) - 1 bigram terms, taken on the normalized
\* form and not on the raw candidate.
ScoreIsWeightedSum ==
    pc = "scored" =>
        LET t == normalizeEnglish(text) IN
        t # << >> =>
            textScore =
                FAdd(FMul(LambdaScale, UnigramSum(t, model, Len(t))),
                     FMul(model.lambdaBigram, BigramSum(t, model, Len(t))))

\* C13 witness: a raw candidate that normalization changes, of two symbols or
\* more once normalized, has been given a finite score under a model with a
\* bigram weight other than zero.
ScoredChangedCandidate ==
    /\ pc = "scored"
    /\ Len(normalized) >= 2
    /\ normalized # text
    /\ model.lambdaBigram # 0
    /\ IsFinite(textScore)

\* C14: for a corpus whose normalized form c has N >= 2 symbols, the unigram
\* entry of symbol s is the logarithm of (occurrences of s in c + k) /
\* (N + 27k), and the bigram entry of (p, s) is the logarithm of (adjacent
\* positions of c holding p then s + k) / (rowTotal[p] + 27k), where
\* rowTotal[p] is the number of positions of c other than the last that
\* hold p.  (k is held in halves, so the counts are doubled.)
TablesFollowSmoothedCounts ==
    pc = "trained" =>
        LET c == normalizeEnglish(corpusRaw)
            N == Len(c)
            k == IF "smoothingK" \in DOMAIN trainOptions
                 THEN trainOptions.smoothingK ELSE 2
            Occurrences(s) ==
                Cardinality({ n \in 1 .. N : c[n] = ALPHABET[s + 1] })
            Pairs(p, s) ==
                Cardinality({ n \in 1 .. (N - 1) :
                                c[n] = ALPHABET[p + 1] /\ c[n + 1] = ALPHABET[s + 1] })
            RowTotal(p) ==
                Cardinality({ n \in 1 .. (N - 1) : c[n] = ALPHABET[p + 1] })
        IN  /\ N >= 2
            /\ \A s \in Indices :
                  model.unigramLogProb[s] =
                      MathLog(Occurrences(s) * 2 + k, N * 2 + 27 * k)
            /\ \A p \in Indices, s \in Indices :
                  model.bigramLogProb[p * 27 + s] =
                      MathLog(Pairs(p, s) * 2 + k, RowTotal(p) * 2 + 27 * k)

\* C14 witness: a model has been trained, with a smoothing constant that is
\* neither zero nor the default, on a corpus of three symbols whose first
\* symbol is also its last and not its second.
TrainedOnRepeatedSymbol ==
    /\ pc = "trained"
    /\ Len(corpus) = 3
    /\ corpus[3] = corpus[1]
    /\ corpus[2] # corpus[1]
    /\ "smoothingK" \in DOMAIN trainOptions
    /\ trainOptions.smoothingK \notin { 0, DefaultSmoothingK }

\* C15: breakSubstitutionCipher has no side effect other than its random
\* draws: no step writes to an output stream, and no step changes the raw
\* ciphertext, the options or the model.
BreakerHasNoSideEffect ==
    [][ /\ consoleLog' = consoleLog
        /\ ciphertextRaw' = ciphertextRaw
        /\ options' = options
        /\ model' = model ]_vars

\* The budgets of the call as the options give them, 20 restarts of 5000
\* iterations when they are omitted.
RestartBudget == IF "restarts" \in DOMAIN options THEN options.restarts ELSE 20
IterationBudget ==
    IF "maxIterations" \in DOMAIN options THEN options.maxIterations ELSE 5000

\* The call has ended, with a result or with an error.
CallEnded == pc \in { "returned", "threw" }

\* The restarts and the evaluations made so far are those of whole restarts
\* of IterationBudget proposals each, plus the proposals of the running one.
BudgetsAreFollowed ==
    /\ (pc = "loop" =>
          /\ r <= RestartBudget
          /\ Len(restartResults) = r
          /\ evals = r * (IterationBudget + 1))
    /\ (pc = "climb" =>
          /\ r < RestartBudget
          /\ iter <= IterationBudget
          /\ Len(restartResults) = r
          /\ evals = r * (IterationBudget + 1) + iter + 1)
    /\ ((CallEnded /\ cipherNormalized # << >>) =>
          /\ r = RestartBudget
          /\ Len(restartResults) = RestartBudget
          /\ evals = RestartBudget * (IterationBudget + 1))
    /\ ((pc = "climb" /\ r = 0 /\ "useFrequencyInit" \notin DOMAIN options) =>
          initialKey = buildFrequencyInitialKey(cipherNormalized))

IsLetterChar(c) == c \in LowerChars \/ (c \in AlphabetChars /\ c # " ")
BecomesSpace(c) == c = " " \/ c \in LineBreakChars \/ c \in PunctuationChars
IsOtherChar(c) == ~IsLetterChar(c) /\ ~BecomesSpace(c) /\ c # "ß"

\* The raw text is two letters with only line breaks, tabs, punctuation
\* marks and other non-alphabet characters between them.
TwoLettersApart ==
    /\ Len(text) >= 3
    /\ IsLetterChar(text[1])
    /\ IsLetterChar(text[Len(text)])
    /\ \A n \in 2 .. (Len(text) - 1) :
          text[n] # " " /\ (IsOtherChar(text[n]) \/ BecomesSpace(text[n]))

\* C17 as stated: every character outside the alphabet, digits and hyphens
\* included, becomes a space, so two letters with only such characters
\* between them come out with exactly one space between them.
EveryNonAlphabetCharBecomesSpace ==
    (pc # "normalize" /\ TwoLettersApart) =>
        normalized = UpperOfChar(text[1]) \o << " " >> \o UpperOfChar(text[Len(text)])

\* C17 amended: two letters with only characters outside the alphabet
\* between them come out with exactly one space between them when one of
\* those characters is a line break, a tab or a listed punctuation mark, and
\* next to each other when all of them are digits, hyphens or other symbols.
SeparatorBecomesSpaceOrNothing ==
    (pc # "normalize" /\ TwoLettersApart) =>
        normalized =
            UpperOfChar(text[1])
            \o (IF \E n \in 2 .. (Len(text) - 1) : BecomesSpace(text[n])
                THEN << " " >> ELSE << >>)
            \o UpperOfChar(text[Len(text)])

\* C17 witness: two letters with a punctuation mark between them have been
\* normalized to three symbols.
PunctuationSeparatedLetters ==
    /\ pc = "normalized"
    /\ TwoLettersApart
    /\ \E n \in 2 .. (Len(text) - 1) : text[n] \in PunctuationChars
    /\ Len(normalized) = 3

\* The upper-case letters a raw text gives, in order.
RECURSIVE UpperLettersOf(_)
UpperLettersOf(t) ==
    IF t = << >> THEN << >>
    ELSE (IF IsLetterChar(Head(t)) \/ Head(t) = "ß"
          THEN UpperOfChar(Head(t)) ELSE << >>) \o UpperLettersOf(Tail(t))

\* Positions of the letters of a raw text, and the pairs of positions of
\* letters with no letter between them.
LetterPositions(t) ==
    { n \in 1 .. Len(t) : IsLetterChar(t[n]) \/ t[n] = "ß" }

NeighbouringLetters(t) ==
    { p \in LetterPositions(t) \X LetterPositions(t) :
        /\ p[1] < p[2]
        /\ \A n \in (p[1] + 1) .. (p[2] - 1) : n \notin LetterPositions(t) }

\* C18: a character that is still outside the alphabet after the upper-case
\* and punctuation pass is dropped without inserting a space: the output
\* holds the letters of the input in order, with one space between two
\* neighbouring letters exactly when a space, a line break, a tab or a listed
\* punctuation mark stands between them, so letters with only digits or
\* hyphens between them are adjacent.
OtherCharsAreDropped ==
    pc # "normalize" =>
        /\ SelectSeq(normalized, LAMBDA c : c # " ") = UpperLettersOf(text)
        /\ Len(SelectSeq(normalized, LAMBDA c : c = " ")) =
              Cardinality({ p \in NeighbouringLetters(text) :
                              \E n \in (p[1] + 1) .. (p[2] - 1) : BecomesSpace(text[n]) })

\* C18 witness: two letters with only a digit or a hyphen between them have
\* been normalized to two adjacent letters.
DigitSeparatedLettersAdjacent ==
    /\ pc = "normalized"
    /\ Len(text) = 3
    /\ IsLetterChar(text[1])
    /\ text[2] \in { "1", "-" }
    /\ IsLetterChar(text[3])
    /\ Len(normalized) = 2

\* C20: an iteration replaces the current key, text and score by those of
\* the neighbor when the neighbor's score is strictly greater than the
\* current score, and only then: when it is equal or lower, the current key,
\* text and score and the restart's best key, text and score are unchanged.
NeighborAcceptedIffStrictlyBetter ==
    [][ (pc = "climb" /\ pc' = "climb") =>
          IF Below(currentScore, neighborScore')
          THEN /\ currentKey' = neighborKey'
               /\ currentPlain' =
                     applySubstitutionToNormalized(cipherNormalized, neighborKey')
               /\ currentScore' = neighborScore'
          ELSE /\ currentKey' # neighborKey'
               /\ UNCHANGED << currentKey, currentPlain, currentScore,
                               bestKey, bestPlain, bestScore >> ]_vars

\* C20 witness: a neighbor whose finite score equals the current score has
\* been rejected.
EqualNeighborRejected ==
    /\ pc = "climb"
    /\ iter >= 1
    /\ IsFinite(currentScore)
    /\ neighborScore = currentScore
    /\ currentKey # neighborKey

\* The useFrequencyInit option as given, true when omitted.
FrequencyInitOption ==
    IF "useFrequencyInit" \in DOMAIN options THEN options.useFrequencyInit ELSE TRUE

\* C21: the frequency-seeded key is the initial key of the first restart
\* only, and only when useFrequencyInit is true, and it takes no random
\* draw; every later restart, and every restart when useFrequencyInit is
\* false, starts from a key shuffled with 26 fresh random draws.
InitialKeyChoice ==
    [][ (pc = "loop" /\ pc' = "climb") =>
          IF r = 0 /\ FrequencyInitOption
          THEN /\ initialKey' = buildFrequencyInitialKey(cipherNormalized)
               /\ draws' = draws
          ELSE /\ \E d \in ShuffleDraws : initialKey' = createRandomKey(d)
               /\ draws' = draws + 26 ]_vars

\* C21 witness: with useFrequencyInit true, the second restart has started
\* from a key that is not the frequency-seeded key.
SecondRestartShuffled ==
    /\ pc = "climb"
    /\ r = 1
    /\ FrequencyInitOption
    /\ initialKey # buildFrequencyInitialKey(cipherNormalized)
    /\ draws >= 26

\* The fixed order of plaintext symbols by expected frequency, and the
\* place of the symbol of index v in it.
EnglishOrder ==
    << " ", "E", "T", "A", "O", "N", "R", "I", "S", "H", "D", "L", "F", "C",
       "M", "U", "G", "Y", "P", "W", "B", "V", "K", "J", "X", "Q", "Z" >>

PlaceInOrder(v) == CHOOSE n \in 1 .. 27 : EnglishOrder[n] = ALPHABET[v + 1]

\* Occurrences of the symbol of index s in a text.
OccurrencesIn(t, s) == Cardinality({ n \in 1 .. Len(t) : t[n] = ALPHABET[s + 1] })

\* C22: the frequency-seeded key gives every place of the fixed order
\* space, E, T, A, O, N, ... to one ciphertext symbol, in descending order of
\* count: a symbol that occurs strictly more often than another decodes to
\* an earlier place, a most frequent symbol decodes to the space, and the
\* decoded text has a space wherever the ciphertext has its single most
\* frequent symbol.
FrequencyKeyFollowsCounts ==
    pc \in { "seeded", "seed-decoded" } =>
        /\ { PlaceInOrder(codecKey[s]) : s \in Indices } = 1 .. 27
        /\ \A a \in Indices, b \in Indices :
              OccurrencesIn(codecText, a) > OccurrencesIn(codecText, b) =>
                  PlaceInOrder(codecKey[a]) < PlaceInOrder(codecKey[b])
        /\ \E s \in Indices :
              /\ codecKey[s] = 26
              /\ \A b \in Indices :
                    OccurrencesIn(codecText, s) >= OccurrencesIn(codecText, b)
        /\ (pc = "seed-decoded" =>
              \A n \in 1 .. Len(codecText) :
                  (\A b \in Indices :
                      ALPHABET[b + 1] # codecText[n] =>
                          OccurrencesIn(codecText, b)
                              < OccurrencesIn(codecText, charToIndex[codecText[n]]))
                  => codecPlain[n] = " ")

\* C22 witness: a ciphertext whose single most frequent symbol is Z, with
\* two other symbols of different counts, has been decoded with its
\* frequency-seeded key.
SeededWithThreeCounts ==
    /\ pc = "seed-decoded"
    /\ OccurrencesIn(codecText, 25) > OccurrencesIn(codecText, 1)
    /\ OccurrencesIn(codecText, 1) > OccurrencesIn(codecText, 0)
    /\ codecKey[25] = 26
    /\ codecKey[1] = 4

\* The permutations of the indices 0 .. n-1.
PermutationsOfSize(n) ==
    { p \in [ 0 .. (n - 1) -> 0 .. (n - 1) ] :
        \A a \in 0 .. (n - 1), b \in 0 .. (n - 1) : p[a] = p[b] => a = b }

\* The sequences of draws of a shuffle of n positions that end in key k.
DrawsYielding(n, k) == { d \in DrawsOfSize(n) : RandomKeyOfSize(n, d) = k }

\* C23: the shuffle of a key of n positions is a bijection between the
\* sequences of draws (j in 0..i at step i, for i from n-1 down to 1) and
\* the permutations of the n indices: the key returned is a permutation
\* that no other sequence of draws yields, and every permutation is yielded
\* by exactly one sequence of draws.
ShuffleIsBijectionOntoPermutations ==
    /\ pc = "shuffled" =>
          /\ codecKey \in PermutationsOfSize(keySize)
          /\ Cardinality(DrawsYielding(keySize, codecKey)) = 1
    /\ pc = "shuffle" =>
          \A p \in PermutationsOfSize(keySize) :
              Cardinality(DrawsYielding(keySize, p)) = 1

\* C23 witness: a shuffle of at least four positions returned a key that
\* leaves no position in place.
ShuffledEveryPosition ==
    /\ pc = "shuffled"
    /\ keySize >= 4
    /\ \A i \in 0 .. (keySize - 1) : codecKey[i] # i

\* The key k with the values of positions i and j exchanged.
Exchanged(k, i, j) ==
    [ p \in Indices |-> IF p = i THEN k[j] ELSE IF p = j THEN k[i] ELSE k[p] ]

\* C24: every hill-climbing iteration builds its neighbor from two
\* different positions i and j of 0..26: the neighbor equals the current
\* key except at i and j, whose values are exchanged, and the current key
\* is left as it was by the construction (after the iteration it is either
\* unchanged or, on acceptance, the neighbor).
NeighborIsOneSwapAway ==
    [][ (pc = "climb" /\ iter' = iter + 1) =>
          /\ \E i \in Indices, j \in Indices :
                /\ i # j
                /\ neighborKey' = Exchanged(currentKey, i, j)
          /\ neighborKey' # currentKey
          /\ currentKey' \in { currentKey, neighborKey' } ]_vars

\* C24 witness: after an iteration that rejected its neighbor, the neighbor
\* differs from the untouched current key at exactly two positions.
RejectedNeighborTwoPositionsAway ==
    /\ pc = "climb" /\ iter >= 1
    /\ currentKey = initialKey
    /\ Cardinality({ p \in Indices : neighborKey[p] # currentKey[p] }) = 2

\* The largest of the first n scores of a sequence of restart results,
\* taken in the order given; -Infinity when there is none.
RECURSIVE LargestScore(_, _)
LargestScore(results, n) ==
    IF n = 0
    THEN NegInf
    ELSE LET before == LargestScore(results, n - 1)
         IN  IF Below(before, results[n].score) THEN results[n].score ELSE before

\* The orders in which n restarts can be reduced.
OrdersOf(n) ==
    { p \in [ 1 .. n -> 1 .. n ] : \A a \in 1 .. n, b \in 1 .. n : p[a] = p[b] => a = b }

\* The best score recorded is the largest of the restart scores in whatever
\* order they are reduced.
BestScoreInAnyOrder ==
    pc \in { "loop", "climb", "threw", "returned" } =>
        \A p \in OrdersOf(Len(restartResults)) :
            LargestScore([ n \in 1 .. Len(restartResults) |-> restartResults[p[n]] ],
                         Len(restartResults)) = globalBestScore

CandidatesScoredOverFullLength ==
    pc = "climb" =>
        /\ Len(normalizeEnglish(currentPlain)) = Len(cipherNormalized)
        /\ (iter >= 1 => Len(normalizeEnglish(NeighborPlain)) = Len(cipherNormalized))

\* C27: from the start of a restart and after every iteration, the best
\* key, text and score of the restart are the current key, text and score;
\* so the test that updates the best never fails when it is reached, since
\* a failed test would leave the best behind the accepted neighbor.
BestIsAlwaysCurrent ==
    pc = "climb" =>
        /\ bestKey = currentKey
        /\ bestPlain = currentPlain
        /\ bestScore = currentScore

\* C27 witness: an iteration accepted its neighbor, and the best key is
\* that neighbor.
BestFollowedAcceptedNeighbor ==
    /\ pc = "climb" /\ iter >= 1
    /\ currentKey = neighborKey
    /\ currentKey # initialKey
    /\ bestKey = neighborKey
    /\ Below(NegInf, bestScore)

\* The score of the normalized ciphertext decoded with a key.
ScoreUnderKey(key) ==
    scoreText(applySubstitutionToNormalized(cipherNormalized, key), model)

\* The number of restarts asked for.
RestartsOption == IF "restarts" \in DOMAIN options THEN options.restarts ELSE 20

\* C28: the score a restart reports is never below the score of its
\* initial key; and when the first restart is seeded by frequency
\* (useFrequencyInit true, restarts >= 1) the score returned by
\* breakSubstitutionCipher is never below the score of the ciphertext
\* decoded with the frequency-seeded key.
SearchNeverLosesItsStart ==
    /\ pc = "climb" => ~Below(bestScore, ScoreUnderKey(initialKey))
    /\ (pc = "returned" /\ FrequencyInitOption /\ RestartsOption >= 1) =>
          LET seedKey == buildFrequencyInitialKey(cipherNormalized)
              seedPlain == applySubstitutionToNormalized(cipherNormalized, seedKey)
          IN  /\ DOMAIN seedKey = Indices
              /\ Len(seedPlain) = Len(cipherNormalized)
              /\ ~Below(result.score, scoreText(seedPlain, model))

\* C28 witness: with the first restart seeded by frequency, the call
\* returned a score above the finite score of the frequency-seeded key.
ReturnedAboveFrequencySeed ==
    /\ pc = "returned" /\ FrequencyInitOption /\ RestartsOption >= 1
    /\ LET seedKey == buildFrequencyInitialKey(cipherNormalized)
           seedPlain == applySubstitutionToNormalized(cipherNormalized, seedKey)
       IN  /\ DOMAIN seedKey = Indices
           /\ Len(seedPlain) = Len(cipherNormalized)
           /\ Below(NegInf, scoreText(seedPlain, model))
           /\ Below(scoreText(seedPlain, model), result.score)

\* The sum of f[from] + ... + f[to].
RECURSIVE SumOver(_, _, _)
SumOver(f, from, to) == IF from > to THEN 0 ELSE f[from] + SumOver(f, from + 1, to)

\* The smoothed probabilities (count + k) / (total + 27k) of the 27 counts
\* f[from] .. f[from + 26] are defined and sum to exactly 1: the
\* denominator is not zero and the numerators sum to it.  (k is held in
\* halves, so counts are doubled.)
ProbabilitiesSumToOne(f, from, total, k) ==
    /\ total * 2 + 27 * k > 0
    /\ SumOver([ n \in from .. (from + 26) |-> f[n] * 2 + k ], from, from + 26)
          = total * 2 + 27 * k

\* C29: after the counting pass over a normalized corpus of length N the
\* unigram counts sum to N, the bigram counts of row p sum to rowTotal[p],
\* the row totals sum to N-1, rowTotal[p] is the unigram count of p less
\* one when p is the last symbol of the corpus; and the 27 smoothed unigram
\* probabilities, and the 27 smoothed bigram probabilities of every row,
\* rows of symbols that never occur included, sum to exactly 1.
CountsAndProbabilitiesAddUp ==
    pc = "trained" =>
        LET N == Len(corpus)
            k == IF "smoothingK" \in DOMAIN trainOptions
                 THEN trainOptions.smoothingK ELSE 2
            IsLast(p) == IF corpus[N] = ALPHABET[p + 1] THEN 1 ELSE 0
        IN  /\ SumOver(counts.unigramCounts, 0, 26) = N
            /\ SumOver(counts.rowTotals, 0, 26) = N - 1
            /\ \A p \in Indices :
                  /\ SumOver(counts.bigramCounts, p * 27, p * 27 + 26)
                        = counts.rowTotals[p]
                  /\ counts.rowTotals[p] = counts.unigramCounts[p] - IsLast(p)
            /\ ProbabilitiesSumToOne(counts.unigramCounts, 0, N, k)
            /\ \A p \in Indices :
                  ProbabilitiesSumToOne(counts.bigramCounts, p * 27,
                                        counts.rowTotals[p], k)

\* The number of symbols ranked before symbol s: those that occur more
\* often in t, and those that occur as often and have a smaller index.
RankedBefore(t, s) ==
    Cardinality({ u \in Indices :
                    \/ OccurrencesIn(t, u) > OccurrencesIn(t, s)
                    \/ OccurrencesIn(t, u) = OccurrencesIn(t, s) /\ u < s })

\* C30: the frequency-seeded key is a function of the normalized
\* ciphertext alone: symbols with equal counts, those that do not occur
\* included, are ranked in ascending alphabet-index order, so symbol s is
\* given the place after the symbols that are more frequent or as frequent
\* with a smaller index; and a ciphertext made of one repeated symbol
\* decodes to spaces only.
FrequencyKeyBreaksTiesByIndex ==
    pc \in { "seeded", "seed-decoded" } =>
        /\ \A s \in Indices :
              ALPHABET[codecKey[s] + 1] = EnglishOrder[RankedBefore(codecText, s) + 1]
        /\ (pc = "seed-decoded" /\ codecText # << >>
              /\ (\A n \in 1 .. Len(codecText) : codecText[n] = codecText[1])) =>
              \A n \in 1 .. Len(codecText) : codecPlain[n] = " "

\* C30 witness: a ciphertext that repeats the one symbol Z has been decoded
\* to spaces, and A, the first of the symbols that do not occur, decodes to E.
RepeatedSymbolDecodedToSpaces ==
    /\ pc = "seed-decoded"
    /\ Len(codecText) >= 2
    /\ \A n \in 1 .. Len(codecText) : codecText[n] = "Z"
    /\ \A n \in 1 .. Len(codecText) : codecPlain[n] = " "
    /\ codecKey[0] = 4

====
